---- MODULE Spec2Model ----
(***************************************************************************)
(* Round registration of multiplexed slide images:                         *)
(*   src/reg_wsi/register_multiplex_wsi.py      (variant "wsi")            *)
(*   src/reg_multiplex_docker/reg_multiplex.py  (variant "docker")         *)
(*   src/reg_docker/reg.py                      (register_frame)           *)
(*                                                                         *)
(* A raster is kept symbolically: the file it was read from, the shape of  *)
(* that file, the zero border added on each of the four edges, and the     *)
(* circular translation applied.  Pixel(im, i, j) recovers the content.    *)
(* A floating-point value is kept as the rational num/den it approximates  *)
(* plus a flag telling that the binary64 value lies just below num/den in  *)
(* magnitude.                                                              *)
(***************************************************************************)
EXTENDS Integers, Sequences, FiniteSets, TLC

VARIABLES variant, tif_files, pc, abort_reason, rounds, max_rounds, dapis,
          antigens, xy, fix_dapi, fix_id, todo, im_fix, down_sample, errors,
          mov_dapi, mov_id, im_mov, shift, estimates, writes, out, report

vars == <<variant, tif_files, pc, abort_reason, rounds, max_rounds, dapis,
          antigens, xy, fix_dapi, fix_id, todo, im_fix, down_sample, errors,
          mov_dapi, mov_id, im_mov, shift, estimates, writes, out, report>>

(***************************************************************************)
(* Bounds                                                                  *)
(***************************************************************************)
\* largest number of *.tif files in the input folder
MaxFiles == 4

(***************************************************************************)
(* Input files.  parts is os.path.basename(x).split('.'); h, w is          *)
(* tif.pages[0].shape[0:2].                                                *)
(***************************************************************************)
File(p, h, w) == [parts |-> p, h |-> h, w |-> w]

Universe ==
    { File(<<"S", "1", "DAPI", "tif">>, 4000, 4000),
      File(<<"S", "1", "CD3", "tif">>, 4200, 3900),
      File(<<"T", "1", "dapi", "tif">>, 3900, 4100),
      File(<<"S", "2", "DAPI", "tif">>, 3900, 4100),
      File(<<"S", "2", "CD8", "tif">>, 60000, 5000),
      File(<<"S", "3", "DAPI", "tif">>, 4100, 12000),
      File(<<"S", "3", "CK", "tif">>, 4000, 4100) }

NoFile == File(<<>>, 0, 0)

\* results of the estimator: the numerators ky, kx of the shift <<ky/f, kx/f>>
\* it reports for upsample factor f, and the error in hundredths
Estimations ==
    { [ky |-> 0, kx |-> 0, error |-> 0],
      [ky |-> 61, kx |-> -1, error |-> 2],
      [ky |-> -61, kx |-> 2, error |-> 1] }

Range(s) == { s[i] : i \in DOMAIN s }

\* the enumerations glob2.glob can return: any order of any set of files
Enumerations ==
    UNION { { s \in [1..n -> Universe] : \A i, j \in 1..n : i # j => s[i] # s[j] }
            : n \in 0..MaxFiles }

(***************************************************************************)
(* File-name parsing                                                       *)
(***************************************************************************)
\* os.path.basename(x).split('.')[-3]
RoundOf(f) == f.parts[Len(f.parts) - 2]

\* str.lower() on the marker names of the universe
Lower(m) == IF m = "DAPI" THEN "dapi" ELSE m

\* os.path.basename(x).split('.')[-2].lower() == 'dapi'
IsDapi(f) == Lower(f.parts[Len(f.parts) - 1]) = "dapi"

\* [x for x in s if P(x)], order kept
RECURSIVE Filter(_, _)
Filter(s, keep) ==
    IF s = <<>> THEN <<>>
    ELSE IF Head(s) \in keep THEN <<Head(s)>> \o Filter(Tail(s), keep)
         ELSE Filter(Tail(s), keep)

\* code points of the characters of the strings compared by max(rounds)
CodePoints(str) ==
    CASE str = "0" -> <<48>> [] str = "1" -> <<49>> [] str = "2" -> <<50>>
      [] str = "3" -> <<51>> [] str = "4" -> <<52>> [] str = "5" -> <<53>>
      [] str = "6" -> <<54>> [] str = "7" -> <<55>> [] str = "8" -> <<56>>
      [] str = "9" -> <<57>>

\* Python's str < str: lexicographic on code points
RECURSIVE SeqLess(_, _)
SeqLess(a, b) ==
    IF b = <<>> THEN FALSE
    ELSE IF a = <<>> THEN TRUE
    ELSE IF Head(a) # Head(b) THEN Head(a) < Head(b)
    ELSE SeqLess(Tail(a), Tail(b))

StrLess(a, b) == SeqLess(CodePoints(a), CodePoints(b))

\* max(rounds) on a non-empty list of strings
StrMax(S) == CHOOSE m \in S : \A o \in S : ~StrLess(m, o)

\* str(n) for the list lengths that occur
PyStr(n) ==
    CASE n = 0 -> "0" [] n = 1 -> "1" [] n = 2 -> "2" [] n = 3 -> "3"
      [] n = 4 -> "4" [] n = 5 -> "5" [] n = 6 -> "6" [] n = 7 -> "7"

(***************************************************************************)
(* Rasters                                                                 *)
(***************************************************************************)
\* tifffile.imread(f) followed by np.squeeze
imread(f) == [src |-> f, h |-> f.h, w |-> f.w, top |-> 0, bottom |-> 0,
              left |-> 0, right |-> 0, dy |-> 0, dx |-> 0]

NoImage == imread(NoFile)

Shape(im) == <<im.top + im.h + im.bottom, im.left + im.w + im.right>>

\* value at [i, j] (0-based): a pixel of the source file, or 0 for border
Pixel(im, i, j) ==
    LET si == (i - im.dy) % Shape(im)[1]
        sj == (j - im.dx) % Shape(im)[2]
    IN  IF /\ si >= im.top /\ si < im.top + im.h
           /\ sj >= im.left /\ sj < im.left + im.w
        THEN <<im.src, si - im.top, sj - im.left>>
        ELSE <<NoFile, 0, 0>>

\* np.pad(f, [(0, n), (0, 0)]) and np.pad(f, [(0, 0), (0, n)])
PadRows(im, n) == [im EXCEPT !.bottom = @ + n]
PadCols(im, n) == [im EXCEPT !.right = @ + n]

pad_frame(im, size) ==
    LET a == IF Shape(im)[1] < size[1]
             THEN PadRows(im, size[1] - Shape(im)[1]) ELSE im
    IN  IF Shape(a)[2] < size[2]
        THEN PadCols(a, size[2] - Shape(a)[2]) ELSE a

Max(S) == CHOOSE m \in S : \A o \in S : o <= m

get_max_frame_xy_dapis(files) ==
    LET d == Filter(files, { f \in Range(files) : IsDapi(f) })
    IN  <<Max({ d[i].h : i \in DOMAIN d }), Max({ d[i].w : i \in DOMAIN d })>>

\* get_max_frame_xy / get_max_frame_size: the largest height and width
get_max_frame_xy(files) ==
    <<Max({ files[i].h : i \in DOMAIN files }),
      Max({ files[i].w : i \in DOMAIN files })>>

get_gray_frame(f, size) == pad_frame(imread(f), size)

\* np.roll(im, d, [0, 1])
Roll(im, d) == [im EXCEPT !.dy = @ + d[1], !.dx = @ + d[2]]

(***************************************************************************)
(* Shifts.  The estimator (skimage phase correlation, upsample_factor = f) *)
(* reports on each axis a multiple k/f of 1/f as a binary64 value.         *)
(***************************************************************************)
Frac(k, f) == [num |-> k, den |-> f, short |-> FALSE]

\* the pairs <<f, k>> of this model for which the binary64 product
\* fl(fl(k/f) * f) is smaller in magnitude than k (IEEE 754, round to
\* nearest even): fl(61/7) * 7 = 60.99999999999999
ShortProducts == { <<7, 61>>, <<7, -61>> }

\* shift * [down_sample, down_sample] on one axis
ScaleAxis(s, f) ==
    [num |-> s.num * f, den |-> s.den,
     short |-> s.short \/ (s.den = f /\ <<f, s.num>> \in ShortProducts)]

ScaleShift(s, f) == <<ScaleAxis(s[1], f), ScaleAxis(s[2], f)>>

Abs(n) == IF n < 0 THEN -n ELSE n

\* ndarray.astype(int) on one axis: truncation toward zero
TruncAxis(v) ==
    LET a == Abs(v.num)
        q == a \div v.den
        m == IF v.short /\ a % v.den = 0 THEN q - 1 ELSE q
    IN  IF v.num < 0 THEN -m ELSE m

\* shift.astype(int)
AsTypeInt(s) == <<TruncAxis(s[1]), TruncAxis(s[2])>>

\* line 180: the offset of the moving reference frame
DapiRollShift(s) == AsTypeInt(s)

FrameRollShiftZero(s) == <<0, 0>>

\* line 187: the offset of each other frame of the moving round
FrameRollShift(s) == AsTypeInt(s)

\* max(im_fix.shape) // 10000 + 1
DownSample(im) == Max({Shape(im)[1], Shape(im)[2]}) \div 10000 + 1

(***************************************************************************)
(* Lists and the report                                                    *)
(***************************************************************************)
PopIndexFirst(s) == 1

\* list.pop() takes the last element
PopIndex(s) == Len(s)

Remove(s, i) == SubSeq(s, 1, i - 1) \o SubSeq(s, i + 1, Len(s))

Orderings(S) ==
    { s \in [1..Cardinality(S) -> S] :
        \A i, j \in 1..Cardinality(S) : i # j => s[i] # s[j] }

\* errors.items(): insertion order of the keys, that of the list rounds
Items(rs, err) == [i \in 1..Len(rs) |-> <<rs[i], err[rs[i]]>>]

RECURSIVE InsertDesc(_, _)
InsertDesc(item, s) ==
    IF s = <<>> THEN <<item>>
    ELSE IF Head(s)[2] >= item[2] THEN <<Head(s)>> \o InsertDesc(item, Tail(s))
    ELSE <<item>> \o s

RECURSIVE InsertAsc(_, _)
InsertAsc(item, s) ==
    IF s = <<>> THEN <<item>>
    ELSE IF Head(s)[2] <= item[2] THEN <<Head(s)>> \o InsertAsc(item, Tail(s))
    ELSE <<item>> \o s

RECURSIVE SortInto(_, _, _)
SortInto(s, acc, desc) ==
    IF s = <<>> THEN acc
    ELSE SortInto(Tail(s),
                  IF desc THEN InsertDesc(Head(s), acc) ELSE InsertAsc(Head(s), acc),
                  desc)

SortedItemsAscending(items) == SortInto(items, <<>>, FALSE)

\* sorted(errors.items(), key=lambda item: item[1], reverse=True), stable
SortedItems(items) == SortInto(items, <<>>, TRUE)

(***************************************************************************)
(* main                                                                    *)
(***************************************************************************)
Init ==
    /\ variant \in {"wsi", "docker"}
    /\ tif_files \in Enumerations
    /\ pc = "mem"
    /\ abort_reason = "none"
    /\ rounds = <<>>
    /\ max_rounds = ""
    /\ dapis = <<>>
    /\ antigens = [r \in {} |-> <<>>]
    /\ xy = <<0, 0>>
    /\ fix_dapi = NoFile
    /\ fix_id = ""
    /\ todo = <<>>
    /\ im_fix = NoImage
    /\ down_sample = 0
    /\ errors = [r \in {} |-> 0]
    /\ mov_dapi = NoFile
    /\ mov_id = ""
    /\ im_mov = NoImage
    /\ shift = <<Frac(0, 1), Frac(0, 1)>>
    /\ estimates = <<>>
    /\ writes = <<>>
    /\ out = [f \in {} |-> NoImage]
    /\ report = <<>>

\* the read that fails on too short a file list: max(sizes) of mem_check
\* ("wsi"), tif_files[0] and tif_files[1] ("docker")
MemCheckRaises == IF variant = "wsi" THEN Len(tif_files) = 0 ELSE Len(tif_files) < 2

\* the memory check: an exception on too few files, else exit() when the
\* two frames do not fit into the available memory
MemCheck ==
    /\ pc = "mem"
    /\ \/ /\ MemCheckRaises
          /\ pc' = "aborted"
          /\ abort_reason' = "exception"
       \/ /\ ~MemCheckRaises
          /\ \E enough \in BOOLEAN :
                IF enough
                THEN pc' = "parse" /\ abort_reason' = abort_reason
                ELSE pc' = "aborted" /\ abort_reason' = "memory"
    /\ UNCHANGED <<variant, tif_files, rounds, max_rounds, dapis, antigens, xy,
                   fix_dapi, fix_id, todo, im_fix, down_sample, errors, mov_dapi,
                   mov_id, im_mov, shift, estimates, writes, out, report>>

\* rounds = list(set(...)) in the arbitrary order of a set, max(rounds), dapis
ParseRounds ==
    /\ pc = "parse"
    /\ rounds' \in Orderings({ RoundOf(f) : f \in Range(tif_files) })
    /\ max_rounds' = StrMax({ RoundOf(f) : f \in Range(tif_files) })
    /\ dapis' = Filter(tif_files, { f \in Range(tif_files) : IsDapi(f) })
    /\ pc' = "check"
    /\ UNCHANGED <<variant, tif_files, abort_reason, antigens, xy, fix_dapi,
                   fix_id, todo, im_fix, down_sample, errors, mov_dapi, mov_id,
                   im_mov, shift, estimates, writes, out, report>>

\* not str(len(dapis)) == max_rounds
CountMismatch == PyStr(Len(dapis)) # max_rounds

\* the two checks on the number of DAPI frames; "docker" only prints the first
CheckCounts ==
    /\ pc = "check"
    /\ IF variant = "wsi" /\ CountMismatch
       THEN pc' = "aborted" /\ abort_reason' = "count"
       ELSE IF Len(dapis) < 2
            THEN pc' = "aborted" /\ abort_reason' = "min"
            ELSE pc' = "group" /\ abort_reason' = abort_reason
    /\ UNCHANGED <<variant, tif_files, rounds, max_rounds, dapis, antigens, xy,
                   fix_dapi, fix_id, todo, im_fix, down_sample, errors, mov_dapi,
                   mov_id, im_mov, shift, estimates, writes, out, report>>

\* the non-DAPI files of round r, in the order of tif_files
AntigensOf(files, r) ==
    Filter(files, { x \in Range(files) : RoundOf(x) = r /\ ~IsDapi(x) })

\* the dict antigens (tifs) and the output frame size
Group ==
    /\ pc = "group"
    /\ antigens' = [r \in Range(rounds) |-> AntigensOf(tif_files, r)]
    /\ xy' = get_max_frame_xy(tif_files)
    /\ pc' = "anchor"
    /\ UNCHANGED <<variant, tif_files, abort_reason, rounds, max_rounds, dapis,
                   fix_dapi, fix_id, todo, im_fix, down_sample, errors, mov_dapi,
                   mov_id, im_mov, shift, estimates, writes, out, report>>

\* fix_dapi = dapis.pop()
SelectAnchor ==
    /\ pc = "anchor"
    /\ fix_dapi' = dapis[PopIndex(dapis)]
    /\ dapis' = Remove(dapis, PopIndex(dapis))
    /\ fix_id' = RoundOf(fix_dapi')
    /\ todo' = antigens[fix_id']
    /\ pc' = "fixframes"
    /\ UNCHANGED <<variant, tif_files, abort_reason, rounds, max_rounds, antigens,
                   xy, im_fix, down_sample, errors, mov_dapi, mov_id, im_mov,
                   shift, estimates, writes, out, report>>

\* tifffile.imwrite(f.replace(in_folder, out_folder), data=im)
Write(f, im, moving, applied) ==
    /\ writes' = Append(writes, [file |-> f, im |-> im, moving |-> moving,
                                 applied |-> applied])
    /\ out' = (f :> im) @@ out

\* for f in fix_frames: one frame of the fixed round
WriteFixFrame ==
    /\ pc = "fixframes"
    /\ todo # <<>>
    /\ Write(Head(todo), get_gray_frame(Head(todo), xy), FALSE, <<0, 0>>)
    /\ todo' = Tail(todo)
    /\ UNCHANGED <<variant, tif_files, pc, abort_reason, rounds, max_rounds,
                   dapis, antigens, xy, fix_dapi, fix_id, im_fix, down_sample,
                   errors, mov_dapi, mov_id, im_mov, shift, estimates, report>>

\* the fixed DAPI frame, the sample factor and the dict errors
WriteFixDapi ==
    /\ pc = "fixframes"
    /\ todo = <<>>
    /\ im_fix' = get_gray_frame(fix_dapi, xy)
    /\ Write(fix_dapi, im_fix', FALSE, <<0, 0>>)
    /\ down_sample' = DownSample(im_fix')
    /\ errors' = [r \in Range(rounds) |-> 0]
    /\ pc' = "loop"
    /\ UNCHANGED <<variant, tif_files, abort_reason, rounds, max_rounds, dapis,
                   antigens, xy, fix_dapi, fix_id, todo, mov_dapi, mov_id,
                   im_mov, shift, estimates, report>>

\* while dapis: mov_dapi = dapis.pop() and the read of the moving frame
PopMov ==
    /\ pc = "loop"
    /\ dapis # <<>>
    /\ mov_dapi' = dapis[PopIndex(dapis)]
    /\ dapis' = Remove(dapis, PopIndex(dapis))
    /\ mov_id' = RoundOf(mov_dapi')
    /\ todo' = antigens[mov_id']
    /\ im_mov' = get_gray_frame(mov_dapi', xy)
    /\ pc' = "estimate"
    /\ UNCHANGED <<variant, tif_files, abort_reason, rounds, max_rounds, antigens,
                   xy, fix_dapi, fix_id, im_fix, down_sample, errors, shift,
                   estimates, writes, out, report>>

\* phase_cross_correlation on the strided views, and the rescaled shift
Estimate ==
    /\ pc = "estimate"
    /\ \E r \in Estimations :
          /\ shift' = ScaleShift(<<Frac(r.ky, down_sample), Frac(r.kx, down_sample)>>,
                                 down_sample)
          /\ errors' = [errors EXCEPT ![mov_id] = r.error]
          /\ estimates' = Append(estimates,
                                 [fixed |-> im_fix.src, moving |-> im_mov.src,
                                  factor |-> down_sample, ky |-> r.ky, kx |-> r.kx,
                                  error |-> r.error])
    /\ pc' = "writemov"
    /\ UNCHANGED <<variant, tif_files, abort_reason, rounds, max_rounds, dapis,
                   antigens, xy, fix_dapi, fix_id, todo, im_fix, down_sample,
                   mov_dapi, mov_id, im_mov, writes, out, report>>

\* the translated moving DAPI frame
WriteMovDapi ==
    /\ pc = "writemov"
    /\ Write(mov_dapi, Roll(im_mov, DapiRollShift(shift)), TRUE, DapiRollShift(shift))
    /\ pc' = IF todo = <<>> THEN "loop" ELSE "movframes"
    /\ UNCHANGED <<variant, tif_files, abort_reason, rounds, max_rounds, dapis,
                   antigens, xy, fix_dapi, fix_id, todo, im_fix, down_sample,
                   errors, mov_dapi, mov_id, im_mov, shift, estimates, report>>

\* for f in mov_frames: one translated non-DAPI frame of the moving round
WriteMovFrame ==
    /\ pc = "movframes"
    /\ todo # <<>>
    /\ Write(Head(todo), Roll(get_gray_frame(Head(todo), xy), FrameRollShift(shift)),
             TRUE, FrameRollShift(shift))
    /\ todo' = Tail(todo)
    /\ pc' = IF Tail(todo) = <<>> THEN "loop" ELSE "movframes"
    /\ UNCHANGED <<variant, tif_files, abort_reason, rounds, max_rounds, dapis,
                   antigens, xy, fix_dapi, fix_id, im_fix, down_sample, errors,
                   mov_dapi, mov_id, im_mov, shift, estimates, report>>

\* an exception of the estimator or of a write inside the loop: no handler
Raise ==
    /\ pc \in {"estimate", "writemov", "movframes"}
    /\ pc' = "aborted"
    /\ abort_reason' = "exception"
    /\ UNCHANGED <<variant, tif_files, rounds, max_rounds, dapis, antigens, xy,
                   fix_dapi, fix_id, todo, im_fix, down_sample, errors, mov_dapi,
                   mov_id, im_mov, shift, estimates, writes, out, report>>

\* the displacements printed after the loop
Report ==
    /\ pc = "loop"
    /\ dapis = <<>>
    /\ report' = SortedItems(Items(rounds, errors))
    /\ pc' = "done"
    /\ UNCHANGED <<variant, tif_files, abort_reason, rounds, max_rounds, dapis,
                   antigens, xy, fix_dapi, fix_id, todo, im_fix, down_sample,
                   errors, mov_dapi, mov_id, im_mov, shift, estimates, writes,
                   out>>

Next ==
    \/ MemCheck
    \/ ParseRounds
    \/ CheckCounts
    \/ Group
    \/ SelectAnchor
    \/ WriteFixFrame
    \/ WriteFixDapi
    \/ PopMov
    \/ Estimate
    \/ WriteMovDapi
    \/ WriteMovFrame
    \/ Raise
    \/ Report

Spec == Init /\ [][Next]_vars

(***************************************************************************)
(* Properties                                                              *)
(***************************************************************************)
InputFiles == Range(tif_files)

\* number of times file f was written
WriteCount(f) == Cardinality({ i \in DOMAIN writes : writes[i].file = f })

\* C1: every frame written, fixed or moving, DAPI or not, has as height the
\* largest height and as width the largest width over all input files of
\* the run.
C1_CanonicalShape ==
    \A i \in DOMAIN writes :
        LET sh == Shape(writes[i].im)
        IN  /\ \A g \in InputFiles : g.h <= sh[1] /\ g.w <= sh[2]
            /\ \E g \in InputFiles : g.h = sh[1]
            /\ \E g \in InputFiles : g.w = sh[2]

\* the largest shape over the files of round r alone
RoundShape(r) ==
    <<Max({ g.h : g \in { x \in InputFiles : RoundOf(x) = r } }),
      Max({ g.w : g \in { x \in InputFiles : RoundOf(x) = r } })>>

\* a finished run with fixed and moving, DAPI and other frames written, in
\* which no round on its own has the output shape
C1_Witness ==
    /\ pc = "done"
    /\ \A r \in Range(rounds) : RoundShape(r) # xy
    /\ \E i, j \in DOMAIN writes :
          /\ writes[i].moving /\ ~writes[j].moving
          /\ ~IsDapi(writes[j].file)
          /\ Shape(imread(writes[i].file)) # xy
          /\ Shape(writes[i].im) = xy

\* index of the moving DAPI write that governs write i: the last one before i
GoverningDapi(i) ==
    LET before == { j \in 1..(i - 1) : writes[j].moving /\ IsDapi(writes[j].file) }
    IN  IF before = {} THEN 0 ELSE Max(before)

Probes(n, limit) == { k \in {0, n - 1, n, limit - 1} : k >= 0 /\ k < limit }

\* im is file f with a zero border on the trailing edges only, of shape size
ZeroPadded(im, f, size) ==
    /\ Shape(im) = size
    /\ \A i \in Probes(f.h, size[1]), j \in Probes(f.w, size[2]) :
          Pixel(im, i, j) = IF i < f.h /\ j < f.w THEN <<f, i, j>>
                            ELSE <<NoFile, 0, 0>>

\* C3: every frame of the anchor round is written once, untranslated (the
\* input with a zero border on the trailing edges), and the anchor round is
\* never the moving side of an estimation.
C3_AnchorPassThrough ==
    (fix_dapi # NoFile) =>
       /\ \A f \in InputFiles :
             (RoundOf(f) = fix_id /\ f \in DOMAIN out) =>
                 ZeroPadded(out[f], f, xy) /\ WriteCount(f) = 1
       /\ \A e \in DOMAIN estimates : RoundOf(estimates[e].moving) # fix_id

\* C4: when main has run to completion every input file has been written
\* exactly once.
C4_EachInputWrittenOnce ==
    (pc = "done") => \A f \in InputFiles : WriteCount(f) = 1

\* the checks on the DAPI count have been passed or have ended the run
CountsChecked ==
    pc \notin {"mem", "parse", "check"} /\ abort_reason \notin {"memory", "exception"}

NumDapis == Cardinality({ f \in InputFiles : IsDapi(f) })

NumRounds == Cardinality({ RoundOf(f) : f \in InputFiles })

\* C5: an empty input ends the run before any output; once the counts are
\* checked, a number of DAPI frames different from the number of distinct
\* rounds has ended the run before an anchor is selected, and an equal
\* number (of at least two) has not ended it.
C5_AbortExactlyOnMismatch ==
    /\ (tif_files = <<>> /\ pc # "mem") => (pc = "aborted" /\ writes = <<>>)
    /\ CountsChecked =>
          /\ (NumDapis # NumRounds) =>
                (pc = "aborted" /\ fix_dapi = NoFile /\ writes = <<>>)
          /\ (NumDapis = NumRounds /\ NumDapis >= 2) => pc # "aborted"

\* C6: a failure while a round is registered does not stop the run.
C6_FailedRoundIsolated ==
    (mov_dapi # NoFile) => pc # "aborted"

NonIncreasing(rep) ==
    \A i, j \in DOMAIN rep : i < j => rep[i][2] >= rep[j][2]

\* C7 as stated: the report has one entry per non-anchor round, none for
\* the anchor round, in non-increasing order of error.
C7_ReportWithoutAnchor ==
    (pc = "done") =>
       /\ { report[i][1] : i \in DOMAIN report } = Range(rounds) \ {fix_id}
       /\ Len(report) = Cardinality(Range(rounds) \ {fix_id})
       /\ NonIncreasing(report)

\* C7 amended: the report has exactly one entry per round of rounds, the
\* anchor round included, each with the value of errors for that round, in
\* non-increasing order of error.
C7_ReportAllRounds ==
    (pc = "done") =>
       /\ { report[i][1] : i \in DOMAIN report } = Range(rounds)
       /\ Len(report) = Cardinality(Range(rounds))
       /\ \A i \in DOMAIN report : report[i][2] = errors[report[i][1]]
       /\ fix_id \in { report[i][1] : i \in DOMAIN report }
       /\ NonIncreasing(report)

\* three rounds reported with three different errors that the dict errors
\* did not hold in descending order
C7_Witness ==
    /\ pc = "done"
    /\ Len(report) = 3
    /\ Cardinality({ report[i][2] : i \in DOMAIN report }) = 3
    /\ ~NonIncreasing(Items(rounds, errors))
    /\ report[3][1] = fix_id

\* C8: at the end of the loop every round is either the anchor round, never
\* registered, or was registered exactly once, its own DAPI frame against
\* the anchor's.
C8_EveryRoundOnce ==
    (pc = "done") =>
       \A r \in Range(rounds) :
          LET regs == { e \in DOMAIN estimates : RoundOf(estimates[e].moving) = r }
          IN  IF r = fix_id THEN regs = {}
              ELSE /\ Cardinality(regs) = 1
                   /\ \A e \in regs : estimates[e].fixed = fix_dapi

\* the anchor round main selects on enumeration q of the input files
AnchorOf(q) ==
    LET d == Filter(q, { f \in Range(q) : IsDapi(f) })
    IN  RoundOf(d[Len(d)])

\* C9 as stated: every enumeration order of the same input files selects
\* the anchor round this run selected.
C9_AnchorOrderIndependent ==
    (fix_dapi # NoFile) =>
       \A q \in Orderings(InputFiles) : AnchorOf(q) = fix_id

\* C9 amended: the anchor is the DAPI frame enumerated last, so the anchor
\* round is fixed by the input files together with their enumeration order.
C9_AnchorIsLastDapi ==
    (fix_dapi # NoFile) =>
       /\ fix_id = RoundOf(fix_dapi)
       /\ IsDapi(fix_dapi)
       /\ \E i \in DOMAIN tif_files :
             /\ tif_files[i] = fix_dapi
             /\ \A j \in DOMAIN tif_files : j > i => ~IsDapi(tif_files[j])

\* a finished run whose anchor was enumerated after a DAPI frame of another
\* round
C9_Witness ==
    /\ pc = "done"
    /\ \E i, j \in DOMAIN tif_files :
          /\ i < j
          /\ tif_files[j] = fix_dapi
          /\ IsDapi(tif_files[i])
          /\ RoundOf(tif_files[i]) # fix_id

\* num/den rounded to the nearest integer
RoundNearest(num, den) == (2 * num + den) \div (2 * den)

\* C10: the offset applied to a translated frame is, on each axis, the
\* factor f = floor(maxDimension / 10000) + 1 times the estimator's shift
\* k/f, rounded to the nearest integer.
C10_AppliedIsScaledShift ==
    (writes # <<>> /\ writes[Len(writes)].moving) =>
       LET e == estimates[Len(estimates)]
           w == writes[Len(writes)]
           f == Max({xy[1], xy[2]}) \div 10000 + 1
       IN  /\ e.factor = f
           /\ w.applied = <<RoundNearest(f * e.ky, f), RoundNearest(f * e.kx, f)>>
           /\ w.im.dy = w.applied[1]
           /\ w.im.dx = w.applied[2]

====
